---------------------------- MODULE Spec2Model ----------------------------
(***************************************************************************)
(* A model of js/utils/MarkdownParser.js: MarkdownParser.format and the    *)
(* rewrite stages it calls, one action per stage call.                     *)
(*                                                                         *)
(* A JavaScript string is modelled as a sequence of one-character strings, *)
(* so every regular expression of the source is an operator that scans the *)
(* sequence the way the regular expression engine scans the string.        *)
(***************************************************************************)
EXTENDS Integers, Sequences, FiniteSets, TLC

VARIABLES
    content,            \* format's first argument
    answer,             \* format's second argument (Null when omitted)
    katex,              \* the global `katex` of the page: Absent or a renderer
    formatted,          \* format's local `formatted`
    katexPlaceholders,  \* format's local `katexPlaceholders`
    pc,                 \* the statement of format that runs next
    scan,               \* the locals of the line scanner that is in its loop
    events,             \* EventBus: this.events
    unsubscribes,       \* EventBus: the unsubscribe functions on() returned
    invoked,            \* EventBus: the callbacks the last emit invoked
    raised              \* EventBus: whether the last call raised

scanVars == <<scan>>

busVars == <<events, unsubscribes, invoked, raised>>

vars == <<content, answer, katex, formatted, katexPlaceholders, pc, scan,
          events, unsubscribes, invoked, raised>>

--------------------------------------------------------------------------
(* Characters and character classes of the regular expressions.            *)

NL == "\n"
TAB == "\t"
\* the character U+0060 (backtick), which a TLA+ string cannot hold
BQ == "[backtick]"

Digits == {"0", "1", "2", "3", "4", "5", "6", "7", "8", "9"}

Letters ==
    {"a", "b", "c", "d", "e", "f", "g", "h", "i", "j", "k", "l", "m",
     "n", "o", "p", "q", "r", "s", "t", "u", "v", "w", "x", "y", "z",
     "A", "B", "C", "D", "E", "F", "G", "H", "I", "J", "K", "L", "M",
     "N", "O", "P", "Q", "R", "S", "T", "U", "V", "W", "X", "Y", "Z"}

\* \s (the members that the modelled inputs can contain)
IsSpace(c) == c \in {" ", "\t", "\n", "\r", "\f"}

\* \d
IsDigit(c) == c \in Digits

\* \w
IsWord(c) == c \in Letters \/ c \in Digits \/ c = "_"

\* .  (any character but a line terminator)
IsDot(c) == c \notin {"\n", "\r"}

--------------------------------------------------------------------------
(* String primitives: startsWith, indexOf, includes, trim, split, join.    *)

Min(S) == CHOOSE m \in S : \A n \in S : m <= n

\* s.startsWith(p, i - 1), positions counted from 1
StartsWithAt(s, p, i) ==
    /\ i >= 1
    /\ i + Len(p) - 1 <= Len(s)
    /\ \A k \in 1..Len(p) : s[i + k - 1] = p[k]

StartsWith(s, p) == StartsWithAt(s, p, 1)

\* s.indexOf(p, i - 1) + 1: the first position >= i where p occurs, 0 when none
IndexOfFrom(s, p, i) ==
    LET J == {j \in i..(Len(s) - Len(p) + 1) : StartsWithAt(s, p, j)}
    IN  IF J = {} THEN 0 ELSE Min(J)

\* s.includes(p)
Includes(s, p) == IndexOfFrom(s, p, 1) # 0

\* s.substring(i - 1): the characters from position i on
From(s, i) == SubSeq(s, i, Len(s))

\* s.trim()
Trim(s) ==
    LET K == {k \in 1..Len(s) : ~IsSpace(s[k])}
    IN  IF K = {} THEN <<>>
        ELSE SubSeq(s, Min(K), CHOOSE m \in K : \A n \in K : n <= m)

\* s.split(sep) for a non-empty separator: the pieces between the
\* non-overlapping occurrences of sep, found left to right
RECURSIVE SplitFrom(_, _, _)
SplitFrom(s, sep, i) ==
    LET j == IndexOfFrom(s, sep, i)
    IN  IF j = 0 THEN <<SubSeq(s, i, Len(s))>>
        ELSE <<SubSeq(s, i, j - 1)>> \o SplitFrom(s, sep, j + Len(sep))

Split(s, sep) == SplitFrom(s, sep, 1)

\* pieces.join(sep)
RECURSIVE Join(_, _)
Join(pieces, sep) ==
    IF pieces = <<>> THEN <<>>
    ELSE IF Len(pieces) = 1 THEN pieces[1]
    ELSE pieces[1] \o sep \o Join(Tail(pieces), sep)

\* the concatenation of a sequence of strings: pieces.join('')
Concat(pieces) == Join(pieces, <<>>)

\* String(n) for a natural number n
RECURSIVE ToDigits(_)
ToDigits(n) ==
    LET d == <<"0", "1", "2", "3", "4", "5", "6", "7", "8", "9">>[(n % 10) + 1]
    IN  IF n < 10 THEN <<d>> ELSE ToDigits(n \div 10) \o <<d>>

--------------------------------------------------------------------------
(* JavaScript values.  An object is a record; a property the object does   *)
(* not have is a field the record does not have.                           *)

\* the value of an omitted or null argument
Null == [null |-> TRUE]

\* the value `undefined` where a string could stand
Undefined == <<"undefined">>

\* `typeof katex === 'undefined'`: the page loaded no math renderer
Absent == [absent |-> TRUE]

\* key in obj
Has(obj, key) == key \in DOMAIN obj

\* obj[key] where the property holds a string
Get(obj, key) == IF Has(obj, key) THEN obj[key] ELSE Undefined

\* the string a template literal `${v}` inserts for v
Template(v) == IF v = Undefined THEN <<"u", "n", "d", "e", "f", "i", "n", "e", "d">> ELSE v

\* v is truthy, for a string or undefined
Truthy(v) == v # Undefined /\ v # <<>>

\* GetSubstitution for a string pattern (no captures), from position i of
\* the replacement on: "$$" is "$", "$&" the matched text, "$[backtick]" the
\* text before the match, "$'" the text after it; any other "$" is literal
RECURSIVE SubstitutionFrom(_, _, _, _, _)
SubstitutionFrom(replacement, i, matched, before, after) ==
    LET J == {j \in i..(Len(replacement) - 1) :
                 replacement[j] = "$" /\ replacement[j + 1] \in {"$", "&", BQ, "'"}}
    IN  IF J = {} THEN From(replacement, i)
        ELSE
            LET j == Min(J)
                c == replacement[j + 1]
            IN  SubSeq(replacement, i, j - 1)
                \o (IF c = "$" THEN <<"$">>
                    ELSE IF c = "&" THEN matched
                    ELSE IF c = BQ THEN before
                    ELSE after)
                \o SubstitutionFrom(replacement, j + 2, matched, before, after)

\* ReplaceFirst replacing every occurrence of the pattern
RECURSIVE ReplaceFirst_EveryOccurrence(_, _, _)
ReplaceFirst_EveryOccurrence(s, pattern, replacement) ==
    LET j == IndexOfFrom(s, pattern, 1)
    IN  IF j = 0 THEN s
        ELSE SubSeq(s, 1, j - 1) \o replacement
             \o ReplaceFirst_EveryOccurrence(From(s, j + Len(pattern)), pattern, replacement)

\* s.replace(pattern, replacement) for a string pattern and a string
\* replacement: the first occurrence only
ReplaceFirst(s, pattern, replacement) ==
    LET j == IndexOfFrom(s, pattern, 1)
    IN  IF j = 0 THEN s
        ELSE SubSeq(s, 1, j - 1)
             \o SubstitutionFrom(replacement, 1, pattern,
                    SubSeq(s, 1, j - 1), From(s, j + Len(pattern)))
             \o From(s, j + Len(pattern))

--------------------------------------------------------------------------
(* processCitations                                                        *)

\* the template literal of linkHtml
linkHtml(url, title, index) ==
    <<"<", "a", " ", "h", "r", "e", "f", "=", "\"">>
    \o Template(url) \o
    <<"\"", " ", "t", "a", "r", "g", "e", "t", "=", "\"", "_", "b", "l", "a", "n", "k", "\"", " ", "r", "e", "l", "=", "\"", "n", "o", "o", "p", "e", "n", "e", "r", " ", "n", "o", "r", "e", "f", "e", "r", "r", "e", "r", "\"", " ", "c", "l", "a", "s", "s", "=", "\"", "m", "e", "s", "s", "a", "g", "e", "-", "l", "i", "n", "k", "\"", " ", "t", "i", "t", "l", "e", "=", "\"">>
    \o Template(title) \o
    <<"\"", ">", "[">> \o ToDigits(index + 1) \o <<"]", "<", "/", "a", ">">>

\* item.title || item.attribution || 'Source'
CitationTitle(item) ==
    IF Truthy(Get(item, "title")) THEN item.title
    ELSE IF Truthy(Get(item, "attribution")) THEN item.attribution
    ELSE <<"S", "o", "u", "r", "c", "e">>

\* the body of the forEach callback, applied to citations[index + 1 ..]
RECURSIVE CitationsFrom(_, _, _)
CitationsFrom(text, citations, index) ==
    IF index >= Len(citations) THEN text
    ELSE
        LET citation == citations[index + 1]
            applies ==
                /\ Truthy(Get(citation, "matched_text"))
                /\ Has(citation, "items")
                /\ Len(citation.items) > 0
            item == citation.items[1]
        IN  CitationsFrom(
                IF applies
                THEN ReplaceFirst(text, citation.matched_text,
                         linkHtml(Get(item, "url"), CitationTitle(item), index))
                ELSE text,
                citations, index + 1)

processCitations(text, citations) == CitationsFrom(text, citations, 0)

--------------------------------------------------------------------------
(* processKaTeX and restoreKaTeX                                           *)
(*                                                                         *)
(* A renderer is [throwsOn |-> S]: S holds the ordinals of the             *)
(* katex.renderToString calls of this invocation that throw; AlwaysThrows  *)
(* is the renderer whose every call throws.                                *)

AlwaysThrows == [throwsAlways |-> TRUE]

\* the call with this ordinal throws
Throws(renderer, call) ==
    renderer = AlwaysThrows \/ (Has(renderer, "throwsOn") /\ call \in renderer.throwsOn)

\* katex.renderToString(math, {displayMode, throwOnError: false}) when it
\* returns: the markup of the external renderer, opaque to every stage
renderToString(math, displayMode) ==
    <<IF displayMode THEN "{katex-display:" ELSE "{katex-inline:">> \o math \o <<"}">>

\* the span one of the four patterns matches at position i, if any:
\*   "\\["  /\\\[([\s\S]*?)\\\]/      "$$"  /\$\$([\s\S]*?)\$\$/
\*   "\\("  /\\\(([\s\S]*?)\\\)/      "$"   /\$([^$\n]+?)\$/
\* last = 0 when the pattern does not match at i
KatexSpanAt(s, i, kind) ==
    IF kind = "$" THEN
        LET stop == {j \in (i + 1)..Len(s) : s[j] \in {"$", NL}}
            j == IF stop = {} THEN 0 ELSE Min(stop)
        IN  IF s[i] = "$" /\ j >= i + 2 /\ s[j] = "$"
            THEN [last |-> j, math |-> SubSeq(s, i + 1, j - 1)]
            ELSE [last |-> 0, math |-> <<>>]
    ELSE
        LET open == CASE kind = "\\[" -> <<"\\", "[">>
                      [] kind = "$$" -> <<"$", "$">>
                      [] kind = "\\(" -> <<"\\", "(">>
            close == CASE kind = "\\[" -> <<"\\", "]">>
                       [] kind = "$$" -> <<"$", "$">>
                       [] kind = "\\(" -> <<"\\", ")">>
            j == IF StartsWithAt(s, open, i) THEN IndexOfFrom(s, close, i + 2) ELSE 0
        IN  IF j # 0
            THEN [last |-> j + 1, math |-> SubSeq(s, i + 2, j - 1)]
            ELSE [last |-> 0, math |-> <<>>]

\* KatexCallback with the placeholder substituted though the renderer threw
KatexCallback_SubstitutesOnThrow(match, math, kind, acc) ==
    LET displayMode == kind \in {"\\[", "$$"}
        placeholder ==
            (IF displayMode THEN <<"_", "_", "K", "A", "T", "E", "X", "_", "B", "L", "O", "C", "K", "_">>
             ELSE <<"_", "_", "K", "A", "T", "E", "X", "_", "I", "N", "L", "I", "N", "E", "_">>)
            \o ToDigits(Len(acc.placeholders)) \o <<"_", "_">>
    IN  IF katex = Absent
        THEN [acc EXCEPT !.formatted = @ \o match]
        ELSE IF Throws(katex, acc.calls + 1)
        THEN [acc EXCEPT !.formatted = @ \o placeholder, !.calls = @ + 1]
        ELSE [formatted |-> acc.formatted \o placeholder,
              placeholders |-> Append(acc.placeholders, renderToString(math, displayMode)),
              calls |-> acc.calls + 1]

\* the replace callback: acc is the text produced so far, the placeholders
\* pushed so far and the number of renderToString calls made so far
KatexCallback(match, math, kind, acc) ==
    LET displayMode == kind \in {"\\[", "$$"}
        placeholder ==
            (IF displayMode THEN <<"_", "_", "K", "A", "T", "E", "X", "_", "B", "L", "O", "C", "K", "_">> ELSE <<"_", "_", "K", "A", "T", "E", "X", "_", "I", "N", "L", "I", "N", "E", "_">>)
            \o ToDigits(Len(acc.placeholders)) \o <<"_", "_">>
    IN  IF katex = Absent
        THEN [acc EXCEPT !.formatted = @ \o match]
        ELSE IF Throws(katex, acc.calls + 1)
        THEN [acc EXCEPT !.formatted = @ \o match, !.calls = @ + 1]
        ELSE [formatted |-> acc.formatted \o placeholder,
              placeholders |-> Append(acc.placeholders, renderToString(math, displayMode)),
              calls |-> acc.calls + 1]

\* formatted.replace(pattern, callback) with the g flag, from position i on
RECURSIVE KatexPass(_, _, _, _)
KatexPass(s, i, kind, acc) ==
    LET J == {j \in i..Len(s) : KatexSpanAt(s, j, kind).last # 0}
    IN  IF J = {} THEN [acc EXCEPT !.formatted = @ \o From(s, i)]
        ELSE
            LET j == Min(J)
                m == KatexSpanAt(s, j, kind)
            IN  KatexPass(s, m.last + 1, kind,
                    KatexCallback(SubSeq(s, j, m.last), m.math, kind,
                        [acc EXCEPT !.formatted = @ \o SubSeq(s, i, j - 1)]))

processKaTeX(text) ==
    LET p1 == KatexPass(text, 1, "\\[", [formatted |-> <<>>, placeholders |-> <<>>, calls |-> 0])
        p2 == KatexPass(p1.formatted, 1, "$$", [p1 EXCEPT !.formatted = <<>>])
        p3 == KatexPass(p2.formatted, 1, "\\(", [p2 EXCEPT !.formatted = <<>>])
        p4 == KatexPass(p3.formatted, 1, "$", [p3 EXCEPT !.formatted = <<>>])
    IN  [formatted |-> p4.formatted, placeholders |-> p4.placeholders]

\* parseInt(index) for a run of digits
RECURSIVE parseInt(_)
parseInt(digits) ==
    IF digits = <<>> THEN 0
    ELSE 10 * parseInt(SubSeq(digits, 1, Len(digits) - 1))
         + (CHOOSE d \in 0..9 : ToDigits(d) = <<digits[Len(digits)]>>)

\* the property key a number indexes an object with: String(n)
RECURSIVE KeyOf(_)
KeyOf(n) ==
    LET d == <<"0", "1", "2", "3", "4", "5", "6", "7", "8", "9">>[(n % 10) + 1]
    IN  IF n < 10 THEN d ELSE KeyOf(n \div 10) \o d

\* /__KATEX_(BLOCK|INLINE)_(\d+)__/ at position i: the last position of the
\* match and the digits captured, last = 0 when there is no match at i
PlaceholderAt(s, i) ==
    LET afterKind ==
            IF StartsWithAt(s, <<"_", "_", "K", "A", "T", "E", "X", "_", "B", "L", "O", "C", "K", "_">>, i) THEN i + 14
            ELSE IF StartsWithAt(s, <<"_", "_", "K", "A", "T", "E", "X", "_", "I", "N", "L", "I", "N", "E", "_">>, i) THEN i + 15
            ELSE 0
        nonDigit == {j \in afterKind..Len(s) : ~IsDigit(s[j])}
        j == IF afterKind = 0 \/ nonDigit = {} THEN 0 ELSE Min(nonDigit)
    IN  IF j > afterKind /\ StartsWithAt(s, <<"_", "_">>, j)
        THEN [last |-> j + 1, index |-> SubSeq(s, afterKind, j - 1)]
        ELSE [last |-> 0, index |-> <<>>]

\* formatted.replace(/__KATEX_(BLOCK|INLINE)_(\d+)__/g, callback) from i on;
\* the callback returns placeholders[parseInt(index)] || match, where
\* `placeholders` is whatever value the caller passed
RECURSIVE RestoreFrom(_, _, _)
RestoreFrom(s, i, placeholders) ==
    LET J == {j \in i..Len(s) : PlaceholderAt(s, j).last # 0}
    IN  IF J = {} THEN From(s, i)
        ELSE
            LET j == Min(J)
                m == PlaceholderAt(s, j)
                key == KeyOf(parseInt(m.index))
                found == IF Has(placeholders, key) THEN placeholders[key] ELSE Undefined
            IN  SubSeq(s, i, j - 1)
                \o (IF Truthy(found) THEN found ELSE SubSeq(s, j, m.last))
                \o RestoreFrom(s, m.last + 1, placeholders)

restoreKaTeX(text, placeholders) == RestoreFrom(text, 1, placeholders)

--------------------------------------------------------------------------
(* processCodeBlocks and processInlineCode                                 *)

\* /```(\w+)?\n([\s\S]*?)```/ at position i: the language, the code and the
\* last position of the match; last = 0 when there is no match at i
CodeBlockAt(s, i) ==
    LET nonWord == {j \in (i + 3)..Len(s) : ~IsWord(s[j])}
        n == IF nonWord = {} THEN 0 ELSE Min(nonWord)
        close == IF n # 0 /\ s[n] = NL THEN IndexOfFrom(s, <<BQ, BQ, BQ>>, n + 1) ELSE 0
    IN  IF StartsWithAt(s, <<BQ, BQ, BQ>>, i) /\ close # 0
        THEN [last |-> close + 2, lang |-> SubSeq(s, i + 3, n - 1),
              code |-> SubSeq(s, n + 1, close - 1)]
        ELSE [last |-> 0, lang |-> <<>>, code |-> <<>>]

RECURSIVE CodeBlocksFrom(_, _)
CodeBlocksFrom(s, i) ==
    LET J == {j \in i..Len(s) : CodeBlockAt(s, j).last # 0}
    IN  IF J = {} THEN From(s, i)
        ELSE
            LET j == Min(J)
                m == CodeBlockAt(s, j)
            IN  SubSeq(s, i, j - 1)
                \o <<"<", "p", "r", "e", ">", "<", "c", "o", "d", "e", " ", "c", "l", "a", "s", "s", "=", "\"", "l", "a", "n", "g", "u", "a", "g", "e", "-">>
                \o m.lang \o <<"\"", ">">> \o Trim(m.code)
                \o <<"<", "/", "c", "o", "d", "e", ">", "<", "/", "p", "r", "e", ">">>
                \o CodeBlocksFrom(s, m.last + 1)

processCodeBlocks(text) == CodeBlocksFrom(text, 1)

\* /`([^`]+)`/ at position i: the last position of the match, 0 when none
InlineCodeAt(s, i) ==
    LET j == IndexOfFrom(s, <<BQ>>, i + 1)
    IN  IF s[i] = BQ /\ j >= i + 2 THEN j ELSE 0

RECURSIVE InlineCodeFrom(_, _)
InlineCodeFrom(s, i) ==
    LET J == {j \in i..Len(s) : InlineCodeAt(s, j) # 0}
        i1 == IF J = {} THEN 0 ELSE Min(J)
        j == InlineCodeAt(s, i1)
    IN  IF i1 = 0 THEN From(s, i)
        ELSE SubSeq(s, i, i1 - 1)
             \o <<"<", "c", "o", "d", "e", ">">> \o SubSeq(s, i1 + 1, j - 1)
             \o <<"<", "/", "c", "o", "d", "e", ">">>
             \o InlineCodeFrom(s, j + 1)

processInlineCode(text) == InlineCodeFrom(text, 1)

--------------------------------------------------------------------------
(* processTables                                                           *)

\* line.trim().match(/^\|.*\|$/)
isTableRow(line) ==
    LET row == Trim(line)
    IN  /\ Len(row) >= 2
        /\ row[1] = "|"
        /\ row[Len(row)] = "|"
        /\ \A k \in 1..Len(row) : IsDot(row[k])

\* the inner while loop from line i on: [i, tableLines, separatorSeen] when
\* it exits
RECURSIVE TableRun(_, _, _, _)
TableRun(lines, i, tableLines, separatorSeen) ==
    IF i <= Len(lines) /\ isTableRow(lines[i]) THEN
        LET row == Trim(lines[i])
        IN  IF Includes(row, <<"-", "-", "-">>)
            THEN TableRun(lines, i + 1, tableLines, TRUE)
            ELSE TableRun(lines, i + 1, Append(tableLines, row), separatorSeen)
    ELSE [i |-> i, tableLines |-> tableLines, separatorSeen |-> separatorSeen]

\* rowLine.split('|').filter(c => c.trim() !== '')
TableCells(rowLine) ==
    SelectSeq(Split(rowLine, <<"|">>), LAMBDA c : Trim(c) # <<>>)

\* `<tr>${cellTags}</tr>`
TableRowTag(rowLine) ==
    LET cells == TableCells(rowLine)
        cellTags == Concat([k \in 1..Len(cells) |->
                        <<"<", "t", "d", ">">> \o Trim(cells[k]) \o <<"<", "/", "t", "d", ">">>])
    IN  <<"<", "t", "r", ">">> \o cellTags \o <<"<", "/", "t", "r", ">">>

\* the outer while loop from line i on: the lines pushed to `result`
RECURSIVE TablesFrom(_, _)
TablesFrom(lines, i) ==
    IF i > Len(lines) THEN <<>>
    ELSE IF isTableRow(lines[i]) THEN
        LET run == TableRun(lines, i, <<>>, FALSE)
        IN  (IF run.separatorSeen /\ Len(run.tableLines) > 0
             THEN <<<<"<", "t", "a", "b", "l", "e", ">">>>>
                  \o [k \in 1..Len(run.tableLines) |-> TableRowTag(run.tableLines[k])]
                  \o <<<<"<", "/", "t", "a", "b", "l", "e", ">">>>>
             ELSE run.tableLines)
            \o TablesFrom(lines, run.i)
    ELSE <<lines[i]>> \o TablesFrom(lines, i + 1)

processTables(text) == Join(TablesFrom(Split(text, <<NL>>), 1), <<NL>>)

--------------------------------------------------------------------------
(* processHeaders, processBoldItalic, processHorizontalRules               *)
(*                                                                         *)
(* With the m flag ^ and $ match at the line breaks; the texts of the      *)
(* model hold no line terminator but "\n", so a pattern anchored by ^ and $ *)
(* is applied to each piece of text.split('\n').                           *)

\* level times "#"
Hashes(level) == [k \in 1..level |-> "#"]

\* one replace of processHeaders on one line:
\* /^(?! {4})#{level} (.*$)/gm  ->  <h{level}>$1</h{level}>
HeaderLine(line, level) ==
    LET marker == Hashes(level) \o <<" ">>
    IN  IF ~StartsWith(line, <<" ", " ", " ", " ">>) /\ StartsWith(line, marker)
        THEN <<"<", "h">> \o ToDigits(level) \o <<">">> \o From(line, level + 2)
             \o <<"<", "/", "h">> \o ToDigits(level) \o <<">">>
        ELSE line

HeaderPass(text, level) ==
    LET lines == Split(text, <<NL>>)
    IN  Join([k \in 1..Len(lines) |-> HeaderLine(lines[k], level)], <<NL>>)

processHeaders(text) ==
    HeaderPass(HeaderPass(HeaderPass(HeaderPass(HeaderPass(HeaderPass(
        text, 6), 5), 4), 3), 2), 1)

\* /\*\*(.*?)\*\*/ (marker = "**") or /\*(.*?)\*/ (marker = "*") at position
\* i: the position of the closing marker, 0 when there is no match at i
EmphasisAt(s, i, marker) ==
    LET j == IF StartsWithAt(s, marker, i)
             THEN IndexOfFrom(s, marker, i + Len(marker)) ELSE 0
    IN  IF j # 0 /\ \A k \in (i + Len(marker))..(j - 1) : IsDot(s[k])
        THEN j ELSE 0

\* formatted.replace(pattern, '<tag>$1</tag>') with the g flag, from i on
RECURSIVE EmphasisFrom(_, _, _, _)
EmphasisFrom(s, i, marker, tag) ==
    LET J == {j \in i..Len(s) : EmphasisAt(s, j, marker) # 0}
    IN  IF J = {} THEN From(s, i)
        ELSE
            LET i1 == Min(J)
                j == EmphasisAt(s, i1, marker)
            IN  SubSeq(s, i, i1 - 1)
                \o <<"<">> \o tag \o <<">">> \o SubSeq(s, i1 + Len(marker), j - 1)
                \o <<"<", "/">> \o tag \o <<">">>
                \o EmphasisFrom(s, j + Len(marker), marker, tag)

processBoldItalic(text) ==
    LET bold == EmphasisFrom(text, 1, <<"*", "*">>, <<"s", "t", "r", "o", "n", "g">>)
    IN  EmphasisFrom(bold, 1, <<"*">>, <<"e", "m">>)

\* /^(?!.*\|)(?!.*<tr)(?!.*<pre)(?!.*<code)---$/gm on one line
HorizontalRuleLine(line) ==
    IF /\ ~Includes(line, <<"|">>)
       /\ ~Includes(line, <<"<", "t", "r">>)
       /\ ~Includes(line, <<"<", "p", "r", "e">>)
       /\ ~Includes(line, <<"<", "c", "o", "d", "e">>)
       /\ line = <<"-", "-", "-">>
    THEN <<"<", "h", "r", ">">>
    ELSE line

processHorizontalRules(text) ==
    LET lines == Split(text, <<NL>>)
    IN  Join([k \in 1..Len(lines) |-> HorizontalRuleLine(lines[k])], <<NL>>)

--------------------------------------------------------------------------
(* processBlockquotes                                                      *)

\* the length of the run of \s characters of s that starts at position i
SpaceRun(s, i) ==
    LET stop == {j \in i..Len(s) : ~IsSpace(s[j])}
    IN  IF stop = {} THEN Len(s) - i + 1 ELSE Min(stop) - i

\* /^>\s+(.*)/.test(line)
isBlockquote(line) ==
    Len(line) >= 2 /\ line[1] = ">" /\ IsSpace(line[2])

\* `<blockquote>${blockquoteContent.join('<br>')}</blockquote>`
BlockquoteTag(blockquoteContent) ==
    <<"<", "b", "l", "o", "c", "k", "q", "u", "o", "t", "e", ">">> \o Join(blockquoteContent, <<"<", "b", "r", ">">>) \o <<"<", "/", "b", "l", "o", "c", "k", "q", "u", "o", "t", "e", ">">>

\* the for loop from line i on, and the flush after it
RECURSIVE BlockquotesFrom(_, _, _, _)
BlockquotesFrom(lines, i, inBlockquote, blockquoteContent) ==
    IF i > Len(lines)
    THEN IF inBlockquote THEN <<BlockquoteTag(blockquoteContent)>> ELSE <<>>
    ELSE IF isBlockquote(lines[i])
    THEN BlockquotesFrom(lines, i + 1, TRUE,
             Append(blockquoteContent,
                    From(lines[i], 2 + SpaceRun(lines[i], 2))))
    ELSE (IF inBlockquote THEN <<BlockquoteTag(blockquoteContent)>> ELSE <<>>)
         \o <<lines[i]>>
         \o BlockquotesFrom(lines, i + 1, FALSE, <<>>)

processBlockquotes(text) ==
    Join(BlockquotesFrom(Split(text, <<NL>>), 1, FALSE, <<>>), <<NL>>)

--------------------------------------------------------------------------
(* processLists                                                            *)

\* /^[\-\*]\s+(.*)/.test(line)
isUlItem(line) ==
    Len(line) >= 2 /\ line[1] \in {"-", "*"} /\ IsSpace(line[2])

\* the number of leading digits of line
DigitRun(line) ==
    LET stop == {j \in 1..Len(line) : ~IsDigit(line[j])}
    IN  IF stop = {} THEN Len(line) ELSE Min(stop) - 1

\* /^\d+\.\s+(.*)/.test(line)
isOlItem(line) ==
    LET d == DigitRun(line)
    IN  /\ d >= 1
        /\ Len(line) >= d + 2
        /\ line[d + 1] = "."
        /\ IsSpace(line[d + 2])

\* `<li>${itemContent}</li>` with itemContent = listLine.replace(/^[\-\*]\s+/, '')
UlItemTag(listLine) ==
    <<"<", "l", "i", ">">> \o From(listLine, 2 + SpaceRun(listLine, 2)) \o <<"<", "/", "l", "i", ">">>

\* `<li><span class="list-number">${marker}</span> ${number}</li>` with
\* marker = listLine.match(/^\d+\./)[0] and number = group 1 of isListItemOl
OlItemTag(listLine) ==
    LET d == DigitRun(listLine)
        marker == SubSeq(listLine, 1, d + 1)
        number == From(listLine, d + 2 + SpaceRun(listLine, d + 2))
    IN  <<"<", "l", "i", ">", "<", "s", "p", "a", "n", " ", "c", "l", "a", "s", "s", "=", "\"", "l", "i", "s", "t", "-", "n", "u", "m", "b", "e", "r", "\"", ">">> \o marker \o <<"<", "/", "s", "p", "a", "n", ">", " ">>
        \o number \o <<"<", "/", "l", "i", ">">>

\* ListRun with the ordered items renumbered by their position in the run
RECURSIVE ListRun_Renumbered(_, _, _)
ListRun_Renumbered(listLines, listIdx, listItems) ==
    IF listIdx > Len(listLines) THEN [listIdx |-> listIdx, listItems |-> listItems]
    ELSE
        LET listLine == listLines[listIdx]
            d == DigitRun(listLine)
            renumbered ==
                <<"<", "l", "i", ">", "<", "s", "p", "a", "n", " ", "c", "l", "a", "s", "s", "=", "\"", "l", "i", "s", "t", "-", "n", "u", "m", "b", "e", "r", "\"", ">">>
                \o ToDigits(Len(listItems) + 1) \o <<".">>
                \o <<"<", "/", "s", "p", "a", "n", ">", " ">>
                \o From(listLine, d + 2 + SpaceRun(listLine, d + 2))
                \o <<"<", "/", "l", "i", ">">>
        IN  IF isUlItem(listLine)
            THEN ListRun_Renumbered(listLines, listIdx + 1, Append(listItems, UlItemTag(listLine)))
            ELSE IF isOlItem(listLine)
            THEN ListRun_Renumbered(listLines, listIdx + 1, Append(listItems, renumbered))
            ELSE IF Trim(listLine) = <<>>
            THEN ListRun_Renumbered(listLines, listIdx + 1, listItems)
            ELSE [listIdx |-> listIdx, listItems |-> listItems]

\* the inner while loop from line listIdx on: [listIdx, listItems] at its exit
RECURSIVE ListRun(_, _, _)
ListRun(listLines, listIdx, listItems) ==
    IF listIdx > Len(listLines) THEN [listIdx |-> listIdx, listItems |-> listItems]
    ELSE
        LET listLine == listLines[listIdx]
        IN  IF isUlItem(listLine)
            THEN ListRun(listLines, listIdx + 1, Append(listItems, UlItemTag(listLine)))
            ELSE IF isOlItem(listLine)
            THEN ListRun(listLines, listIdx + 1, Append(listItems, OlItemTag(listLine)))
            ELSE IF Trim(listLine) = <<>>
            THEN ListRun(listLines, listIdx + 1, listItems)
            ELSE [listIdx |-> listIdx, listItems |-> listItems]

\* the outer while loop from line listIdx on: the entries pushed to listResult
RECURSIVE ListsFrom(_, _)
ListsFrom(listLines, listIdx) ==
    IF listIdx > Len(listLines) THEN <<>>
    ELSE
        LET line == listLines[listIdx]
            currentListType == IF isUlItem(line) THEN <<"u", "l">> ELSE <<"o", "l">>
            run == ListRun(listLines, listIdx, <<>>)
        IN  IF isUlItem(line) \/ isOlItem(line)
            THEN <<<<"<">> \o currentListType \o <<">">> \o Concat(run.listItems)
                   \o <<"<", "/">> \o currentListType \o <<">">>>>
                 \o ListsFrom(listLines, run.listIdx)
            ELSE <<line>> \o ListsFrom(listLines, listIdx + 1)

processLists(text) == Join(ListsFrom(Split(text, <<NL>>), 1), <<NL, NL>>)

--------------------------------------------------------------------------
(* processLinks                                                            *)

UpperCase == <<"A", "B", "C", "D", "E", "F", "G", "H", "I", "J", "K", "L", "M",
               "N", "O", "P", "Q", "R", "S", "T", "U", "V", "W", "X", "Y", "Z">>
LowerCase == <<"a", "b", "c", "d", "e", "f", "g", "h", "i", "j", "k", "l", "m",
               "n", "o", "p", "q", "r", "s", "t", "u", "v", "w", "x", "y", "z">>

\* c.toLowerCase() for an ASCII character
ToLower(c) ==
    IF \E k \in 1..26 : UpperCase[k] = c
    THEN LowerCase[CHOOSE k \in 1..26 : UpperCase[k] = c]
    ELSE c

\* p occurs in s at position i, letter case ignored (the i flag)
StartsWithAtNoCase(s, p, i) ==
    /\ i >= 1
    /\ i + Len(p) - 1 <= Len(s)
    /\ \A k \in 1..Len(p) : ToLower(s[i + k - 1]) = p[k]

\* the length of the run of [^\s<] characters of s that starts at position i
UrlRun(s, i) ==
    LET stop == {j \in i..Len(s) : IsSpace(s[j]) \/ s[j] = "<"}
    IN  IF stop = {} THEN Len(s) - i + 1 ELSE Min(stop) - i

\* (https?:\/\/[^\s<]+|www\.[^\s<]+) with the i flag at position u: the last
\* position of the match, 0 when there is no match at u
UrlAt(s, u) ==
    LET scheme ==
            IF StartsWithAtNoCase(s, <<"h", "t", "t", "p", "s", ":", "/", "/">>, u) /\ UrlRun(s, u + 8) >= 1 THEN 8
            ELSE IF StartsWithAtNoCase(s, <<"h", "t", "t", "p", ":", "/", "/">>, u) /\ UrlRun(s, u + 7) >= 1 THEN 7
            ELSE IF StartsWithAtNoCase(s, <<"w", "w", "w", ".">>, u) /\ UrlRun(s, u + 4) >= 1 THEN 4
            ELSE 0
    IN  IF scheme = 0 THEN 0 ELSE u + scheme + UrlRun(s, u + scheme) - 1

\* /(^|\s)(https?:\/\/[^\s<]+|www\.[^\s<]+)/gi at position i: where the url
\* starts (after the prefix) and the last position of the match; last = 0
\* when there is no match at i
LinkAt(s, i) ==
    IF i = 1 /\ UrlAt(s, 1) # 0
    THEN [url |-> 1, last |-> UrlAt(s, 1)]
    ELSE IF IsSpace(s[i]) /\ UrlAt(s, i + 1) # 0
    THEN [url |-> i + 1, last |-> UrlAt(s, i + 1)]
    ELSE [url |-> 0, last |-> 0]

\* url.replace(/[.,;:!?)\]]+$/, '')
cleanUrlOf(url) ==
    LET keep == {k \in 1..Len(url) : url[k] \notin {".", ",", ";", ":", "!", "?", ")", "]"}}
    IN  IF keep = {} THEN <<>>
        ELSE SubSeq(url, 1, CHOOSE m \in keep : \A n \in keep : n <= m)

\* cleanUrl.startsWith('www.') ? 'https://' + cleanUrl : cleanUrl
fullUrlOf(cleanUrl) ==
    IF StartsWith(cleanUrl, <<"w", "w", "w", ".">>) THEN <<"h", "t", "t", "p", "s", ":", "/", "/">> \o cleanUrl ELSE cleanUrl

\* new URL(fullUrl).hostname, for the urls the pattern above can produce whose
\* authority is a plain host name (no credentials, port or IP literal):
\* [ok |-> FALSE] when the constructor throws.  The host is the text between
\* the slashes after the scheme and the first of / ? # \, in lower case.
urlObj(fullUrl) ==
    LET scheme == IF StartsWithAtNoCase(fullUrl, <<"h", "t", "t", "p", "s", ":">>, 1) THEN 6
                  ELSE IF StartsWithAtNoCase(fullUrl, <<"h", "t", "t", "p", ":">>, 1) THEN 5
                  ELSE 0
        noSlash == {j \in (scheme + 1)..Len(fullUrl) : fullUrl[j] \notin {"/", "\\"}}
        start == IF noSlash = {} THEN Len(fullUrl) + 1 ELSE Min(noSlash)
        stop == {j \in start..Len(fullUrl) : fullUrl[j] \in {"/", "?", "#", "\\"}}
        last == IF stop = {} THEN Len(fullUrl) ELSE Min(stop) - 1
        host == SubSeq(fullUrl, start, last)
    IN  IF scheme = 0 \/ last < start
           \/ \E k \in 1..Len(host) :
                 host[k] \in {":", "@", "[", "]", "<", ">", "^", "|", "%", " "}
        THEN [ok |-> FALSE, hostname |-> <<>>]
        ELSE [ok |-> TRUE, hostname |-> [k \in 1..Len(host) |-> ToLower(host[k])]]

\* displayUrlOf with a target of 50 characters shortened too
displayUrlOf_ShortensAtFifty(cleanUrl) ==
    LET parsed == urlObj(fullUrlOf(cleanUrl))
    IN  IF parsed.ok /\ Len(cleanUrl) >= 50
        THEN parsed.hostname \o <<"/", ".", ".", ".">>
        ELSE cleanUrl

\* the display text: the try block around `new URL`
displayUrlOf(cleanUrl) ==
    LET parsed == urlObj(fullUrlOf(cleanUrl))
    IN  IF parsed.ok /\ Len(cleanUrl) > 50
        THEN parsed.hostname \o <<"/", ".", ".", ".">>
        ELSE cleanUrl

\* the string the replace callback returns for `url` after `prefix`
LinkTag(prefix, url) ==
    LET cleanUrl == cleanUrlOf(url)
    IN  prefix \o <<"<", "a", " ", "h", "r", "e", "f", "=", "\"">> \o fullUrlOf(cleanUrl)
        \o <<"\"", " ", "t", "a", "r", "g", "e", "t", "=", "\"", "_", "b", "l", "a", "n", "k", "\"", " ", "r", "e", "l", "=", "\"", "n", "o", "o", "p", "e", "n", "e", "r", " ", "n", "o", "r", "e", "f", "e", "r", "r", "e", "r", "\"", " ", "c", "l", "a", "s", "s", "=", "\"", "m", "e", "s", "s", "a", "g", "e", "-", "l", "i", "n", "k", "\"", ">">>
        \o displayUrlOf(cleanUrl) \o <<"<", "/", "a", ">">>

RECURSIVE LinksFrom(_, _)
LinksFrom(s, i) ==
    LET J == {j \in i..Len(s) : LinkAt(s, j).last # 0}
    IN  IF J = {} THEN From(s, i)
        ELSE
            LET j == Min(J)
                m == LinkAt(s, j)
            IN  SubSeq(s, i, j - 1)
                \o LinkTag(SubSeq(s, j, m.url - 1), SubSeq(s, m.url, m.last))
                \o LinksFrom(s, m.last + 1)

processLinks(text) == LinksFrom(text, 1)

--------------------------------------------------------------------------
(* processParagraphs                                                       *)

\* para.startsWith('<ul>') || para.startsWith('<ol>')
StartsList(para) == StartsWith(para, <<"<", "u", "l", ">">>) \/ StartsWith(para, <<"<", "o", "l", ">">>)

\* para.includes('</ul>') || para.includes('</ol>')
ClosesList(para) == Includes(para, <<"<", "/", "u", "l", ">">>) \/ Includes(para, <<"<", "/", "o", "l", ">">>)

\* the inner while loop: [combined, paraIdx] at its exit
RECURSIVE MergeForward(_, _, _)
MergeForward(paragraphs, paraIdx, combined) ==
    IF paraIdx <= Len(paragraphs) /\ ~ClosesList(combined)
    THEN MergeForward(paragraphs, paraIdx + 1,
                      combined \o <<NL, NL>> \o paragraphs[paraIdx])
    ELSE [combined |-> combined, paraIdx |-> paraIdx]

\* the outer while loop from candidate paraIdx on: processedParagraphs
RECURSIVE CandidatesFrom(_, _)
CandidatesFrom(paragraphs, paraIdx) ==
    IF paraIdx > Len(paragraphs) THEN <<>>
    ELSE
        LET para == paragraphs[paraIdx]
            merged == MergeForward(paragraphs, paraIdx + 1, para)
        IN  IF StartsList(para) /\ ~ClosesList(para)
            THEN <<merged.combined>> \o CandidatesFrom(paragraphs, merged.paraIdx)
            ELSE IF Trim(para) = <<>>
            THEN CandidatesFrom(paragraphs, paraIdx + 1)
            ELSE <<para>> \o CandidatesFrom(paragraphs, paraIdx + 1)

\* para.match(/^(<[huol]|<pre|<li|<table|<blockquote)/)
isHtml(para) ==
    \/ Len(para) >= 2 /\ para[1] = "<" /\ para[2] \in {"h", "u", "o", "l"}
    \/ StartsWith(para, <<"<", "p", "r", "e">>)
    \/ StartsWith(para, <<"<", "l", "i">>)
    \/ StartsWith(para, <<"<", "t", "a", "b", "l", "e">>)
    \/ StartsWith(para, <<"<", "b", "l", "o", "c", "k", "q", "u", "o", "t", "e">>)

\* para.match(/^(    |\t)/m)
isIndented(para) ==
    \E k \in 1..Len(para) :
        /\ k = 1 \/ para[k - 1] = NL
        /\ para[k] = TAB \/ StartsWithAt(para, <<" ", " ", " ", " ">>, k)

\* the callback of processedParagraphs.map
ParagraphTag(para) ==
    IF isHtml(para) THEN para
    ELSE IF isIndented(para) THEN
        LET lines == Split(para, <<NL>>)
            trimmedLines == [k \in 1..Len(lines) |->
                IF StartsWith(lines[k], <<" ", " ", " ", " ">>) THEN From(lines[k], 5) ELSE lines[k]]
        IN  <<"<", "p", "r", "e", " ", "s", "t", "y", "l", "e", "=", "\"", "w", "h", "i", "t", "e", "-", "s", "p", "a", "c", "e", ":", " ", "p", "r", "e", "-", "w", "r", "a", "p", ";", "\"", ">">>
            \o Join(trimmedLines, <<NL>>) \o <<"<", "/", "p", "r", "e", ">">>
    ELSE <<"<", "p", ">">> \o Join(Split(para, <<NL>>), <<"<", "b", "r", ">">>) \o <<"<", "/", "p", ">">>

processParagraphs(text) ==
    LET processedParagraphs == CandidatesFrom(Split(text, <<NL, NL>>), 1)
        paragraphs == [k \in 1..Len(processedParagraphs) |->
                          ParagraphTag(processedParagraphs[k])]
    IN  Join(SelectSeq(paragraphs, LAMBDA p : p # <<>>), <<NL>>)

--------------------------------------------------------------------------
(* The inputs of format that the model explores.                           *)

\* the longest document, in lines, of LineDocs
MaxLines == 3

\* the longest text, in pieces, of PieceDocs and of MathDocs
MaxPieces == 3

\* the longest padding, in characters, of a url of UrlDocs
MaxPad == 40

\* the most citation descriptors of an answer
MaxCitations == 2

\* the most katex.renderToString calls whose outcome the renderer fixes
MaxCalls == 2

\* the sequences of 1..n elements of S
SeqsUpTo(S, n) == UNION {[1..k -> S] : k \in 1..n}

\* documents made of whole lines: prose, blank lines and one line of each
\* block construct
DocLines ==
    { <<"a">>, <<>>, <<"#", " ", "a">>, <<"*", "a", "*">>, <<BQ, BQ, BQ>>, <<"|", "a", "|", "b", "|">>, <<"|", "-", "-", "-", "|">>, <<"|", "a", "-", "-", "-", "b", "|">>, <<"-", " ", "a">>, <<"1", ".", " ", "a">>, <<"3", ".", " ", "b">>, <<">", " ", "a">>, <<"-", "-", "-">> }

LineDocs == {Join(ls, <<NL>>) : ls \in SeqsUpTo(DocLines, MaxLines)}

\* texts made of inline pieces: prose, markup characters and emphasis,
\* code and math delimiters
Pieces ==
    { <<"a">>, <<" ">>, <<"<">>, <<">">>, <<"&">>, <<"*">>, <<"*", "*">>, <<"*", "*", "*">>, <<BQ>>, <<NL>> }

PieceDocs == {Concat(ps) : ps \in SeqsUpTo(Pieces, MaxPieces)}

\* texts with math spans, with and without prose around them
MathPieces ==
    { <<"$">>, <<"$", "$">>, <<"x">>, <<" ", "y">>, <<NL>> }

MathDocs ==
    {Concat(ps) : ps \in SeqsUpTo(MathPieces, MaxPieces)}
    \cup { <<"\\", "[", "x", "\\", "]">>, <<"\\", "(", "x", "\\", ")">>, <<"\\", "[", "x", "\\", "]", " ", "$", "x", "$">>, <<"$", "$", "x", "$", " ", "y", "$", "$">>, <<"\\", "(", "x", "\\", ")", " ", "$", "$", "x", "$", "$">>, <<"$", "x", "$", " ", "$", "x", "$", " ", "$", "x", "$">> }

\* the page's renderer: none, one that throws on the calls of throwsOn, or one
\* that throws on every call
Renderers ==
    {Absent, AlwaysThrows} \cup {[throwsOn |-> S] : S \in SUBSET (1..MaxCalls)}

\* a bare url of 12 + n characters, alone, in a sentence, and followed by
\* punctuation
UrlOfPad(n) == <<"h", "t", "t", "p", ":", "/", "/", "h", ".", "i", "o", "/">> \o [k \in 1..n |-> "p"]

UrlDocs ==
    UNION {
        { UrlOfPad(n),
          UrlOfPad(n) \o <<".">>,
          UrlOfPad(n) \o <<")", ".">>,
          <<"s", "e", "e", " ">> \o UrlOfPad(n) \o <<",", " ", "o", "k">>,
          <<"w", "w", "w", ".", "h", ".", "i", "o", "/">> \o [k \in 1..n |-> "p"],
          <<"W", "W", "W", ".", "h", ".", "i", "o", "/">> \o [k \in 1..n |-> "p"],
          <<"H", "T", "T", "P", "S", ":", "/", "/", "H", ".", "i", "o", "/">> \o [k \in 1..n |-> "p"] }
        : n \in 0..MaxPad }

\* the end-to-end scenarios of the specification and of the unit of work
\* they describe
ScenarioDocs ==
    { <<"#", " ", "T", "i", "t", "l", "e", NL, NL, "S", "o", "m", "e", " ", "*", "*", "b", "o", "l", "d", "*", "*", " ", "a", "n", "d", " ", "*", "i", "t", "a", "l", "i", "c", "*", " ", "t", "e", "x", "t", " ", "w", "i", "t", "h", " ", "h", "t", "t", "p", ":", "/", "/", "e", "x", "a", "m", "p", "l", "e", ".", "c", "o", "m", "/", "a", "/", "v", "e", "r", "y", "/", "l", "o", "n", "g", "/", "p", "a", "t", "h", "/", "t", "h", "a", "t", "/", "e", "x", "c", "e", "e", "d", "s", "/", "f", "i", "f", "t", "y", "/", "c", "h", "a", "r", "a", "c", "t", "e", "r", "s", "/", "t", "o", "t", "a", "l", " ", "h", "e", "r", "e", ".">>,
      <<"<", "s", "c", "r", "i", "p", "t", ">">>,
      <<BQ, BQ, BQ, "j", "s", NL, "*", "a", "*", NL, "#", " ", "h", NL, "-", " ", "i", NL, BQ, BQ, BQ>>,
      <<"|", "a", "|", "b", "|", NL, "|", "-", "-", "-", "|", "-", "-", "-", "|", NL, "|", "c", "|", "d", "|", NL, "|", "e", "|", "f", "|">>,
      <<"|", "a", "|", "b", "|", "c", "|", NL, "|", "-", "-", "-", "|", "-", "-", "-", "|", "-", "-", "-", "|", NL, "|", "d", "|", "|", "f", "|">>,
      <<"1", ".", " ", "a", NL, "1", ".", " ", "b", NL, "3", ".", " ", "c">> }

\* citation descriptors: usable, without items, with no item, without url,
\* without matched_text, with a second matched_text, with "$&" in the url
Items == { <<[url |-> <<"h", "t", "t", "p", "s", ":", "/", "/", "x">>, title |-> <<"X">>]>>,
           <<[url |-> <<"h", "t", "t", "p", "s", ":", "/", "/", "x", "/", "?", "a", "=", "$", "&", "b", "=", "1">>, title |-> <<"X">>]>>,
           <<[url |-> <<"h", "t", "t", "p", "s", ":", "/", "/", "y">>, attribution |-> <<"Y">>]>>,
           <<[title |-> <<"X">>]>>,
           <<>> }

Descriptors ==
    {[matched_text |-> m, items |-> i] : m \in {<<"[", "S", "1", "]">>, <<"[", "S", "2", "]">>}, i \in Items}
    \cup {[matched_text |-> <<"[", "S", "1", "]">>], [items |-> <<[url |-> <<"h", "t", "t", "p", "s", ":", "/", "/", "x">>]>>]}

Answers ==
    {Null, [metadata |-> [other |-> TRUE]]}
    \cup {[metadata |-> [content_references |-> cs]]
            : cs \in SeqsUpTo(Descriptors, MaxCitations) \cup {<<>>}}

CitedDocs ==
    { <<"S", "e", "e", " ", "[", "S", "1", "]", " ", "f", "o", "r", " ", "d", "e", "t", "a", "i", "l", ".">>, <<"[", "S", "1", "]", "[", "S", "1", "]", " ", "[", "S", "2", "]">>, <<"n", "o", " ", "m", "a", "r", "k">> }

--------------------------------------------------------------------------
(* MarkdownParser.format, one action per statement.                        *)

Init ==
    /\ \/ content \in LineDocs \cup PieceDocs \cup UrlDocs \cup ScenarioDocs
          /\ answer = Null
          /\ katex = Absent
       \/ content \in MathDocs
          /\ answer = Null
          /\ katex \in Renderers
       \/ content \in CitedDocs
          /\ answer \in Answers
          /\ katex = Absent
    /\ formatted = content
    /\ katexPlaceholders = Null
    /\ pc = "processCitations"
    /\ scan = Null
    /\ events = <<>>
    /\ unsubscribes = {}
    /\ invoked = <<>>
    /\ raised = FALSE

\* if (answer && answer.metadata && answer.metadata.content_references)
\*     formatted = this.processCitations(formatted, ...content_references)
Citations ==
    /\ pc = "processCitations"
    /\ formatted' =
         IF /\ answer # Null
            /\ Has(answer, "metadata")
            /\ Has(answer.metadata, "content_references")
         THEN processCitations(formatted, answer.metadata.content_references)
         ELSE formatted
    /\ pc' = "processKaTeX"
    /\ UNCHANGED <<content, answer, katex, katexPlaceholders, scanVars, busVars>>

\* const katexPlaceholders = this.processKaTeX(formatted)
KaTeX ==
    /\ pc = "processKaTeX"
    /\ katexPlaceholders' = processKaTeX(formatted)
    /\ pc' = "processCodeBlocks"
    /\ UNCHANGED <<content, answer, katex, formatted, scanVars, busVars>>

\* formatted = this.<stage>(formatted)
Stage(at, result, next) ==
    /\ pc = at
    /\ formatted' = result
    /\ pc' = next
    /\ UNCHANGED <<content, answer, katex, katexPlaceholders, scanVars, busVars>>

CodeBlocks == Stage("processCodeBlocks", processCodeBlocks(formatted), "processInlineCode")

InlineCode == Stage("processInlineCode", processInlineCode(formatted), "processTables")

Tables == Stage("processTables", processTables(formatted), "processHeaders")

Headers == Stage("processHeaders", processHeaders(formatted), "processBoldItalic")

BoldItalic == Stage("processBoldItalic", processBoldItalic(formatted), "processHorizontalRules")

HorizontalRules ==
    Stage("processHorizontalRules", processHorizontalRules(formatted), "processBlockquotes")

Blockquotes == Stage("processBlockquotes", processBlockquotes(formatted), "processLists")

Lists == Stage("processLists", processLists(formatted), "processLinks")

Links == Stage("processLinks", processLinks(formatted), "processParagraphs")

Paragraphs == Stage("processParagraphs", processParagraphs(formatted), "restoreKaTeX")

\* formatted = this.restoreKaTeX(formatted, katexPlaceholders)
RestoreKaTeX ==
    Stage("restoreKaTeX", restoreKaTeX(formatted, katexPlaceholders), "return")

Next ==
    \/ Citations
    \/ KaTeX
    \/ CodeBlocks
    \/ InlineCode
    \/ Tables
    \/ Headers
    \/ BoldItalic
    \/ HorizontalRules
    \/ Blockquotes
    \/ Lists
    \/ Links
    \/ Paragraphs
    \/ RestoreKaTeX

Spec == Init /\ [][Next]_vars

--------------------------------------------------------------------------
(* Properties of format's result.                                          *)

\* the names of the tags the stages generate
TagNames ==
    { <<"p">>, <<"b", "r">>, <<"s", "t", "r", "o", "n", "g">>, <<"e", "m">>, <<"h", "r">>, <<"p", "r", "e">>, <<"c", "o", "d", "e">>, <<"t", "a", "b", "l", "e">>,
      <<"t", "r">>, <<"t", "d">>, <<"u", "l">>, <<"o", "l">>, <<"l", "i">>, <<"s", "p", "a", "n">>, <<"b", "l", "o", "c", "k", "q", "u", "o", "t", "e">>, <<"a">>,
      <<"h", "1">>, <<"h", "2">>, <<"h", "3">>, <<"h", "4">>, <<"h", "5">>, <<"h", "6">> }

\* the last position of the tag that starts at position i of s: "<", an
\* optional "/", a generated tag's name, then ">" or a space and attributes up
\* to the next ">"; 0 when no such tag starts at i
TagAt(s, i) ==
    LET n == IF i < Len(s) /\ s[i + 1] = "/" THEN i + 2 ELSE i + 1
        ends == {e \in n..Len(s) : s[e] \in {">", " "}}
        e == IF ends = {} THEN 0 ELSE Min(ends)
        close == IF e = 0 THEN 0 ELSE IndexOfFrom(s, <<">">>, e)
    IN  IF s[i] = "<" /\ close # 0 /\ SubSeq(s, n, e - 1) \in TagNames
        THEN close ELSE 0

\* position i of s lies inside a tag as above
InTag(s, i) == \E j \in 1..i : TagAt(s, j) >= i

\* position i of s starts an escaped character: &amp; &lt; &gt; &quot;
EntityAt(s, i) ==
    \/ StartsWithAt(s, <<"&", "a", "m", "p", ";">>, i)
    \/ StartsWithAt(s, <<"&", "l", "t", ";">>, i)
    \/ StartsWithAt(s, <<"&", "g", "t", ";">>, i)
    \/ StartsWithAt(s, <<"&", "q", "u", "o", "t", ";">>, i)

\* s holds a raw "<", ">" or "&" outside the generated tags
HasRawMarkup(s) ==
    \E i \in 1..Len(s) :
        /\ s[i] \in {"<", ">", "&"}
        /\ ~InTag(s, i)
        /\ ~EntityAt(s, i)

\* C1: the result of format holds no raw "<", ">" or "&" that comes from the
\* prose of the input: outside the tags the stages generate, every such
\* character is escaped.
C1_NoRawMarkupFromProse ==
    pc = "return" => ~HasRawMarkup(formatted)

\* the first fenced code block of s as processCodeBlocks recognizes it
FirstCodeBlock(s) ==
    LET J == {j \in 1..Len(s) : CodeBlockAt(s, j).last # 0}
    IN  CodeBlockAt(s, IF J = {} THEN 1 ELSE Min(J))

\* C2: when the input holds a fenced code block, the result holds the block's
\* content as it is in the input (the surrounding white space apart), inside
\* one code-block wrapper: no later stage rewrote, split or re-wrapped it.
C2_CodeBlockInteriorKept ==
    (pc = "return" /\ answer = Null /\ FirstCodeBlock(content).last # 0) =>
        Includes(formatted,
            <<"<", "p", "r", "e", ">", "<", "c", "o", "d", "e", " ", "c", "l", "a", "s", "s", "=", "\"", "l", "a", "n", "g", "u", "a", "g", "e", "-">> \o FirstCodeBlock(content).lang
            \o <<"\"", ">">> \o Trim(FirstCodeBlock(content).code)
            \o <<"<", "/", "c", "o", "d", "e", ">", "<", "/", "p", "r", "e", ">">>)

\* C3: when the renderer rendered a math span, the result holds the recorded
\* fragment of each such span, and no placeholder token.
C3_MathFragmentsRestored ==
    (pc = "return" /\ katexPlaceholders.placeholders # <<>>) =>
        /\ \A k \in 1..Len(katexPlaceholders.placeholders) :
               Includes(formatted, katexPlaceholders.placeholders[k])
        /\ ~Includes(formatted, <<"_", "_", "K", "A", "T", "E", "X", "_">>)

\* the math source a fragment of renderToString was rendered from
MathOf(fragment) == SubSeq(fragment, 2, Len(fragment) - 1)

\* the texts that s stands for when each placeholder token of s is put back
\* as a span of math source: a block token as \[math\] or $$math$$, an inline
\* token as \(math\) or $math$, with the math of the fragment the token names
RECURSIVE Expansions(_, _)
Expansions(s, fragments) ==
    LET J == {j \in 1..Len(s) : PlaceholderAt(s, j).last # 0}
    IN  IF J = {} THEN {s}
        ELSE
            LET j == Min(J)
                m == PlaceholderAt(s, j)
                n == parseInt(m.index) + 1
                math == MathOf(fragments[n])
                sources ==
                    IF n > Len(fragments) THEN {}
                    ELSE IF StartsWithAt(s, <<"_", "_", "K", "A", "T", "E", "X", "_", "B", "L", "O", "C", "K", "_">>, j)
                    THEN {<<"\\", "[">> \o math \o <<"\\", "]">>, <<"$", "$">> \o math \o <<"$", "$">>}
                    ELSE {<<"\\", "(">> \o math \o <<"\\", ")">>, <<"$">> \o math \o <<"$">>}
            IN  {SubSeq(s, 1, j - 1) \o source \o rest :
                    source \in sources,
                    rest \in Expansions(From(s, m.last + 1), fragments)}

\* the placeholder tokens of s name the fragments 0 .. n - 1, each once
TokensNameAll(s, n) ==
    \A k \in 0..(n - 1) :
        Cardinality({j \in 1..Len(s) :
            /\ PlaceholderAt(s, j).last # 0
            /\ parseInt(PlaceholderAt(s, j).index) = k}) = 1

C5_TableNotFractured ==
    pc = "return" =>
        /\ ~Includes(formatted, <<"<", "p", ">", "<", "t", "r", ">">>)
        /\ ~Includes(formatted, <<"<", "p", ">", "<", "/", "t", "a", "b", "l", "e", ">">>)

\* line is prose: letters and spaces, not blank and not indented
IsProseLine(line) ==
    /\ Trim(line) # <<>>
    /\ line[1] # " "
    /\ \A k \in 1..Len(line) : line[k] \in Letters \cup {" "}

\* C6: prose lines separated by single line breaks are rendered as one
\* paragraph in which each line break has become a line-break marker.
C6_SingleBreaksKeptInParagraph ==
    LET lines == Split(content, <<NL>>)
    IN  (pc = "return" /\ answer = Null
         /\ \A k \in 1..Len(lines) : IsProseLine(lines[k])) =>
            formatted = <<"<", "p", ">">> \o Join(lines, <<"<", "b", "r", ">">>) \o <<"<", "/", "p", ">">>

\* row is a separator row: dashes and cell delimiters only, with a run of
\* three dashes
IsSeparatorRow(row) ==
    /\ \A k \in 1..Len(row) : row[k] \in {"-", "|", " "}
    /\ Includes(row, <<"-", "-", "-">>)

\* C7: processTables, given a run of pipe-delimited lines, emits a table only
\* when the run holds a separator row: without one the lines are emitted as
\* they are, with one the non-separator lines are the rows of one table, in
\* their order.
C7_TableOnlyWithSeparatorRow ==
    [][ LET lines == Split(formatted, <<NL>>)
            rows == SelectSeq([k \in 1..Len(lines) |-> Trim(lines[k])],
                              LAMBDA r : ~IsSeparatorRow(r))
        IN  (pc = "processTables"
             /\ \A k \in 1..Len(lines) : isTableRow(lines[k])
             /\ rows # <<>>) =>
                formatted' =
                    IF \E k \in 1..Len(lines) : IsSeparatorRow(Trim(lines[k]))
                    THEN Join(<<<<"<", "t", "a", "b", "l", "e", ">">>>>
                              \o [k \in 1..Len(rows) |-> TableRowTag(rows[k])]
                              \o <<<<"<", "/", "t", "a", "b", "l", "e", ">">>>>, <<NL>>)
                    ELSE Join(rows, <<NL>>)
      ]_vars

\* the item the claim expects for an item line: the line's own marker and the
\* text after it, an ordered item with its literal numeral and "."
ExpectedItem(line) ==
    LET numeral == SubSeq(line, 1, DigitRun(line))
        markerLen == IF line[1] \in {"-", "*"} THEN 1 ELSE Len(numeral) + 1
        itemText == From(line, markerLen + 1 + SpaceRun(line, markerLen + 1))
    IN  IF line[1] \in {"-", "*"}
        THEN <<"<", "l", "i", ">">> \o itemText \o <<"<", "/", "l", "i", ">">>
        ELSE <<"<", "l", "i", ">", "<", "s", "p", "a", "n", " ", "c", "l", "a", "s", "s", "=", "\"", "l", "i", "s", "t", "-", "n", "u", "m", "b", "e", "r", "\"", ">">> \o numeral \o <<".">>
             \o <<"<", "/", "s", "p", "a", "n", ">", " ">> \o itemText \o <<"<", "/", "l", "i", ">">>

\* the lines of the input of processLists, in order, each item line as the
\* item expected for it, blank lines left out
ExpectedListContent(text) ==
    LET lines == SelectSeq(Split(text, <<NL>>), LAMBDA l : Trim(l) # <<>>)
    IN  Concat([k \in 1..Len(lines) |->
            IF isUlItem(lines[k]) \/ isOlItem(lines[k])
            THEN ExpectedItem(lines[k]) ELSE lines[k]])

\* entry without the list wrapper around it, if it has one
WithoutListWrapper(entry) ==
    IF /\ StartsWith(entry, <<"<", "u", "l", ">", "<", "l", "i", ">">>) \/ StartsWith(entry, <<"<", "o", "l", ">", "<", "l", "i", ">">>)
       /\ \/ StartsWithAt(entry, <<"<", "/", "u", "l", ">">>, Len(entry) - 4)
          \/ StartsWithAt(entry, <<"<", "/", "o", "l", ">">>, Len(entry) - 4)
    THEN SubSeq(entry, 5, Len(entry) - 5)
    ELSE entry

\* the entries of the output of processLists, in order, blank entries left
\* out and the list wrappers removed
EmittedListContent(text) ==
    LET entries == SelectSeq(Split(text, <<NL, NL>>), LAMBDA e : Trim(e) # <<>>)
    IN  Concat([k \in 1..Len(entries) |-> WithoutListWrapper(entries[k])])

ExpectedAnchor(url, title, label) ==
    <<"<", "a", " ", "h", "r", "e", "f", "=", "\"">> \o url
    \o <<"\"", " ", "t", "a", "r", "g", "e", "t", "=", "\"", "_", "b", "l", "a", "n", "k", "\"", " ", "r", "e", "l", "=", "\"", "n", "o", "o", "p", "e", "n", "e", "r", " ", "n", "o", "r", "e", "f", "e", "r", "r", "e", "r", "\"", " ", "c", "l", "a", "s", "s", "=", "\"", "m", "e", "s", "s", "a", "g", "e", "-", "l", "i", "n", "k", "\"", " ", "t", "i", "t", "l", "e", "=", "\"">>
    \o title \o <<"\"", ">", "[">> \o ToDigits(label) \o <<"]", "<", "/", "a", ">">>

\* a descriptor with a matched_text, and a first item that has a url
IsApplicable(citation) ==
    /\ Has(citation, "matched_text") /\ citation.matched_text # <<>>
    /\ Has(citation, "items") /\ Len(citation.items) > 0
    /\ Has(citation.items[1], "url")

\* the descriptors handed to processCitations, <<>> when it is not called
ContentReferences ==
    IF answer # Null /\ Has(answer, "metadata") /\ Has(answer.metadata, "content_references")
    THEN answer.metadata.content_references
    ELSE <<>>

\* C9: after processCitations, every applicable descriptor whose matched_text
\* is still left in the text for it (it occurs more often than there are
\* earlier descriptors with the same matched_text) is in the text as an anchor
\* to items[0].url labelled with the descriptor's 1-based position, skipped
\* descriptors counted; and 'See [S1] for detail.' with the one descriptor
\* {matched_text: '[S1]', items: [{url: 'https://x', title: 'X'}]} is
\* formatted as one paragraph: 'See ', the link to https://x labelled [1],
\* ' for detail.'.
C9_CitationAnchorsLabelledByPosition ==
    /\ pc = "processKaTeX" =>
          \A k \in 1..Len(ContentReferences) :
              LET citation == ContentReferences[k]
                  earlier == {e \in 1..(k - 1) :
                                 Get(ContentReferences[e], "matched_text") = citation.matched_text}
                  occurrences == {j \in 1..Len(content) :
                                     StartsWithAt(content, citation.matched_text, j)}
              IN  (IsApplicable(citation) /\ Cardinality(occurrences) > Cardinality(earlier))
                  => /\ Includes(formatted,
                            ExpectedAnchor(citation.items[1].url, CitationTitle(citation.items[1]), k))
                     /\ Cardinality({j \in 1..Len(formatted) :
                                        StartsWithAt(formatted, citation.matched_text, j)})
                            < Cardinality(occurrences)
    /\ ( /\ pc = "return"
         /\ content = <<"S", "e", "e", " ", "[", "S", "1", "]", " ", "f", "o", "r", " ", "d", "e", "t", "a", "i", "l", ".">>
         /\ ContentReferences = <<[matched_text |-> <<"[", "S", "1", "]">>,
                                   items |-> <<[url |-> <<"h", "t", "t", "p", "s", ":", "/", "/", "x">>, title |-> <<"X">>]>>]>> )
       => formatted = <<"<", "p", ">", "S", "e", "e", " ", "<", "a", " ", "h", "r", "e", "f", "=", "\"", "h", "t", "t", "p", "s", ":", "/", "/", "x", "\"", " ", "t", "a", "r", "g", "e", "t", "=", "\"", "_", "b", "l", "a", "n", "k", "\"", " ", "r", "e", "l", "=", "\"", "n", "o", "o", "p", "e", "n", "e", "r", " ", "n", "o", "r", "e", "f", "e", "r", "r", "e", "r", "\"", " ", "c", "l", "a", "s", "s", "=", "\"", "m", "e", "s", "s", "a", "g", "e", "-", "l", "i", "n", "k", "\"", " ", "t", "i", "t", "l", "e", "=", "\"", "X", "\"", ">", "[", "1", "]", "<", "/", "a", ">", " ", "f", "o", "r", " ", "d", "e", "t", "a", "i", "l", ".", "<", "/", "p", ">">>

\* the display text the claim expects for a cleaned target whose host parses
ExpectedDisplay(cleanUrl) ==
    IF Len(cleanUrl) <= 50
    THEN cleanUrl
    ELSE urlObj(fullUrlOf(cleanUrl)).hostname \o <<"/", ".", ".", ".">>

\* C10: processLinks gives every recognized bare URL whose host parses a link
\* that displays the whole cleaned target when that is 50 characters or
\* fewer, and the parsed host name followed by "/..." when it is longer.
C10_AutolinkShortenedAboveFifty ==
    [][ pc = "processLinks" =>
            \A j \in 1..Len(formatted) :
                LET m == LinkAt(formatted, j)
                    cleanUrl == cleanUrlOf(SubSeq(formatted, m.url, m.last))
                IN  (m.last # 0 /\ urlObj(fullUrlOf(cleanUrl)).ok)
                    => Includes(formatted',
                           <<"<", "a", " ", "h", "r", "e", "f", "=", "\"">> \o fullUrlOf(cleanUrl)
                           \o <<"\"", " ", "t", "a", "r", "g", "e", "t", "=", "\"", "_", "b", "l", "a", "n", "k", "\"", " ", "r", "e", "l", "=", "\"", "n", "o", "o", "p", "e", "n", "e", "r", " ", "n", "o", "r", "e", "f", "e", "r", "r", "e", "r", "\"", " ", "c", "l", "a", "s", "s", "=", "\"", "m", "e", "s", "s", "a", "g", "e", "-", "l", "i", "n", "k", "\"", ">">>
                           \o ExpectedDisplay(cleanUrl) \o <<"<", "/", "a", ">">>) ]_vars

\* a target of 51 characters is displayed as its host name and "/..."
C10_Witness ==
    /\ pc = "processParagraphs"
    /\ content = UrlOfPad(39)
    /\ Len(content) = 51
    /\ formatted = <<"<", "a", " ", "h", "r", "e", "f", "=", "\"">> \o content
                   \o <<"\"", " ", "t", "a", "r", "g", "e", "t", "=", "\"", "_", "b", "l", "a", "n", "k", "\"", " ", "r", "e", "l", "=", "\"", "n", "o", "o", "p", "e", "n", "e", "r", " ", "n", "o", "r", "e", "f", "e", "r", "r", "e", "r", "\"", " ", "c", "l", "a", "s", "s", "=", "\"", "m", "e", "s", "s", "a", "g", "e", "-", "l", "i", "n", "k", "\"", ">", "h", ".", "i", "o", "/", ".", ".", ".", "<", "/", "a", ">">>

\* C11: processLinks keeps in the text the punctuation it removes from the
\* end of a bare URL: for every recognized URL, the characters of the match
\* after the cleaned target are in the output right after the emitted link.
C11_TrailingPunctuationKept ==
    [][ pc = "processLinks" =>
            \A j \in 1..Len(formatted) :
                LET m == LinkAt(formatted, j)
                    url == SubSeq(formatted, m.url, m.last)
                    cleanUrl == cleanUrlOf(url)
                IN  m.last # 0
                    => Includes(formatted',
                           <<"<", "/", "a", ">">> \o From(url, Len(cleanUrl) + 1)) ]_vars

\* a descriptor with no items, an empty items list, or a first item without url
LacksSource(citation) ==
    \/ ~Has(citation, "items")
    \/ Len(citation.items) = 0
    \/ ~Has(citation.items[1], "url")

\* C12: processCitations leaves the text as it is, and emits no anchor, for
\* descriptors that lack a usable source: when every descriptor has no items,
\* an empty items list or a first item without url, the text after
\* processCitations is the content.
C12_DescriptorsWithoutSourceSkipped ==
    ( /\ pc = "processKaTeX"
      /\ \A k \in 1..Len(ContentReferences) : LacksSource(ContentReferences[k]) )
    => formatted = content

\* the text the forEach of processCitations has reached after k descriptors
TextAfter(k) == processCitations(content, SubSeq(ContentReferences, 1, k))

\* cur is prev with the occurrence of pattern at position j, and nothing
\* else, replaced by some text
OneOccurrenceReplaced(prev, cur, pattern, j) ==
    /\ StartsWithAt(prev, pattern, j)
    /\ Len(cur) >= Len(prev) - Len(pattern)
    /\ SubSeq(cur, 1, j - 1) = SubSeq(prev, 1, j - 1)
    /\ From(cur, Len(cur) - (Len(prev) - (j + Len(pattern) - 1)) + 1)
           = From(prev, j + Len(pattern))

\* C13: processCitations applies the descriptors one after the other to the
\* text the earlier ones left: a descriptor without matched_text, or whose
\* matched_text does not occur in that text, leaves it unchanged; any other
\* descriptor leaves it unchanged or replaces exactly one occurrence of its
\* matched_text, and a descriptor with a url replaces one; the text after the
\* last descriptor is the result.
C13_CitationsCumulativeInOrder ==
    pc = "processKaTeX" =>
        /\ formatted = TextAfter(Len(ContentReferences))
        /\ \A k \in 1..Len(ContentReferences) :
               LET citation == ContentReferences[k]
                   prev == TextAfter(k - 1)
                   cur == TextAfter(k)
                   replaced == \E j \in 1..Len(prev) :
                                   OneOccurrenceReplaced(prev, cur, citation.matched_text, j)
               IN  IF ~Has(citation, "matched_text") \/ ~Includes(prev, citation.matched_text)
                   THEN cur = prev
                   ELSE /\ cur = prev \/ replaced
                        /\ IsApplicable(citation) => (replaced /\ cur # prev)

\* two descriptors with the matched_text [S1]: the second replaces the second
\* [S1] of the content
C13_Witness ==
    /\ pc = "processKaTeX"
    /\ content = <<"[", "S", "1", "]", "[", "S", "1", "]", " ", "[", "S", "2", "]">>
    /\ ContentReferences = <<[matched_text |-> <<"[", "S", "1", "]">>,
                              items |-> <<[url |-> <<"h", "t", "t", "p", "s", ":", "/", "/", "x">>, title |-> <<"X">>]>>],
                             [matched_text |-> <<"[", "S", "1", "]">>,
                              items |-> <<[url |-> <<"h", "t", "t", "p", "s", ":", "/", "/", "x">>, title |-> <<"X">>]>>]>>
    /\ formatted = <<"<", "a", " ", "h", "r", "e", "f", "=", "\"", "h", "t", "t", "p", "s", ":", "/", "/", "x", "\"", " ", "t", "a", "r", "g", "e", "t", "=", "\"", "_", "b", "l", "a", "n", "k", "\"", " ", "r", "e", "l", "=", "\"", "n", "o", "o", "p", "e", "n", "e", "r", " ", "n", "o", "r", "e", "f", "e", "r", "r", "e", "r", "\"", " ", "c", "l", "a", "s", "s", "=", "\"", "m", "e", "s", "s", "a", "g", "e", "-", "l", "i", "n", "k", "\"", " ", "t", "i", "t", "l", "e", "=", "\"", "X", "\"", ">", "[", "1", "]", "<", "/", "a", ">", "<", "a", " ", "h", "r", "e", "f", "=", "\"", "h", "t", "t", "p", "s", ":", "/", "/", "x", "\"", " ", "t", "a", "r", "g", "e", "t", "=", "\"", "_", "b", "l", "a", "n", "k", "\"", " ", "r", "e", "l", "=", "\"", "n", "o", "o", "p", "e", "n", "e", "r", " ", "n", "o", "r", "e", "f", "e", "r", "r", "e", "r", "\"", " ", "c", "l", "a", "s", "s", "=", "\"", "m", "e", "s", "s", "a", "g", "e", "-", "l", "i", "n", "k", "\"", " ", "t", "i", "t", "l", "e", "=", "\"", "X", "\"", ">", "[", "2", "]", "<", "/", "a", ">", " ", "[", "S", "2", "]">>

\* the cell texts of a pipe-delimited line that are not blank
CellTexts(line) ==
    LET pieces == Split(Trim(line), <<"|">>)
    IN  {Trim(pieces[k]) : k \in 1..Len(pieces)} \ {<<>>}

\* C14: processTables discards from a run of pipe-delimited lines only the
\* lines made of dashes and cell delimiters alone: every other line of the
\* run is in the output, as a plain line or as a table row holding its cell
\* texts; a data row whose cell text holds "---" is not discarded.
C14_OnlySeparatorRowsDiscarded ==
    [][ pc = "processTables" =>
            LET lines == Split(formatted, <<NL>>)
            IN  \A k \in 1..Len(lines) :
                    (isTableRow(lines[k]) /\ ~IsSeparatorRow(Trim(lines[k])))
                    => \/ Includes(formatted', Trim(lines[k]))
                       \/ \A c \in CellTexts(lines[k]) :
                              Includes(formatted', <<"<", "t", "d", ">">> \o c \o <<"<", "/", "t", "d", ">">>) ]_vars

\* the row the claim expects for a retained pipe-delimited line: one cell for
\* every piece between two delimiters of the line, empty pieces included
ExpectedRow(row) ==
    LET pieces == Split(row, <<"|">>)
        cells == SubSeq(pieces, 2, Len(pieces) - 1)
    IN  <<"<", "t", "r", ">">>
        \o Concat([k \in 1..Len(cells) |-> <<"<", "t", "d", ">">> \o Trim(cells[k]) \o <<"<", "/", "t", "d", ">">>])
        \o <<"<", "/", "t", "r", ">">>

\* C15: in a table, processTables makes one cell of every piece between two
\* delimiters of a retained row, an empty one too: a row with k delimiters is
\* emitted with k-1 cells in the order of the row.
C15_EmptyCellsKept ==
    [][ LET lines == Split(formatted, <<NL>>)
        IN  ( /\ pc = "processTables"
              /\ \A k \in 1..Len(lines) : isTableRow(lines[k])
              /\ \E k \in 1..Len(lines) : IsSeparatorRow(Trim(lines[k])) )
            => \A k \in 1..Len(lines) :
                   ~Includes(lines[k], <<"-", "-", "-">>)
                   => Includes(formatted', ExpectedRow(Trim(lines[k]))) ]_vars

\* C16: processBoldItalic turns three markers, a text and three markers into
\* the text in properly nested bold and italic wrappers, the inner wrapper
\* closed before the outer one, with no marker left over.
C16_TripleMarkersNested ==
    [][ \A t \in {<<"a">>, <<"a", " ", "a">>} :
            (pc = "processBoldItalic" /\ formatted = <<"*", "*", "*">> \o t \o <<"*", "*", "*">>)
            => formatted' \in { <<"<", "s", "t", "r", "o", "n", "g", ">", "<", "e", "m", ">">> \o t \o <<"<", "/", "e", "m", ">", "<", "/", "s", "t", "r", "o", "n", "g", ">">>,
                                <<"<", "e", "m", ">", "<", "s", "t", "r", "o", "n", "g", ">">> \o t \o <<"<", "/", "s", "t", "r", "o", "n", "g", ">", "<", "/", "e", "m", ">">> } ]_vars

\* the number of positions of s at which p occurs
Occurrences(s, p) == Cardinality({j \in 1..Len(s) : StartsWithAt(s, p, j)})

\* C17: every list wrapper processLists emits holds items of its own kind
\* only: an unordered list no numbered item, an ordered list numbered items
\* only; and blank lines between the items of one kind do not close the run:
\* such lines give one wrapper.
C17_ListRunsOfOneKind ==
    [][ pc = "processLists" =>
            LET lines == Split(formatted, <<NL>>)
                entries == Split(formatted', <<NL, NL>>)
            IN  /\ \A k \in 1..Len(entries) :
                       /\ StartsWith(entries[k], <<"<", "u", "l", ">", "<", "l", "i", ">">>)
                              => ~Includes(entries[k], <<"<", "s", "p", "a", "n", " ", "c", "l", "a", "s", "s", "=", "\"", "l", "i", "s", "t", "-", "n", "u", "m", "b", "e", "r", "\"", ">">>)
                       /\ StartsWith(entries[k], <<"<", "o", "l", ">", "<", "l", "i", ">">>)
                              => Occurrences(entries[k], <<"<", "l", "i", ">">>)
                                     = Occurrences(entries[k], <<"<", "l", "i", ">", "<", "s", "p", "a", "n", " ", "c", "l", "a", "s", "s", "=", "\"", "l", "i", "s", "t", "-", "n", "u", "m", "b", "e", "r", "\"", ">">>)
                /\ ( /\ isUlItem(lines[1])
                     /\ \A k \in 1..Len(lines) : isUlItem(lines[k]) \/ Trim(lines[k]) = <<>> )
                   => /\ Len(entries) = 1
                      /\ Occurrences(formatted', <<"<", "l", "i", ">">>)
                             = Cardinality({k \in 1..Len(lines) : isUlItem(lines[k])}) ]_vars

\* s is one span delimited by double dollar signs, with no dollar sign inside
IsDoubleDollarSpan(s) ==
    /\ Len(s) >= 5
    /\ StartsWith(s, <<"$", "$">>)
    /\ StartsWithAt(s, <<"$", "$">>, Len(s) - 1)
    /\ \A k \in 3..(Len(s) - 2) : s[k] # "$"

\* C18: processKaTeX never matches a part of a double-dollar span with the
\* inline single-dollar rule: of a text that is one such span it returns
\* either one block placeholder or, when the block rendering did not
\* succeed, the source text whole.
C18_DoubleDollarSpanNotSplit ==
    (pc = "processCodeBlocks" /\ IsDoubleDollarSpan(content))
    => katexPlaceholders.formatted \in {content, <<"_", "_", "K", "A", "T", "E", "X", "_", "B", "L", "O", "C", "K", "_", "0", "_", "_">>}

--------------------------------------------------------------------------
(* The line scanners format calls, their loops taken one iteration at a    *)
(* time.  `scan` holds the locals of the scanner that runs, under their    *)
(* names in the source; an index is the source's index + 1.                *)

\* the longest document, in lines, of ScanDocs
MaxScanLines == 3

\* lines that open, continue and end the runs of the three scanners
ScanLines ==
    { <<"|", "a", "|">>, <<"|", "-", "-", "-", "|">>, <<"-", " ", "a">>, <<"1", ".", " ", "a">>, <<>>, <<"<", "u", "l", ">">> }

ScanDocs == {Join(ls, <<NL>>) : ls \in SeqsUpTo(ScanLines, MaxScanLines)}

\* `formatted` when format, called with text and no answer, is at the
\* statement that calls the scanner
FormattedAt(at, text) ==
    LET atTables == processInlineCode(processCodeBlocks(text))
        atLists == processBlockquotes(processHorizontalRules(processBoldItalic(
                       processHeaders(processTables(atTables)))))
    IN  IF at = "processTables" THEN atTables
        ELSE IF at = "processLists" THEN atLists
        ELSE processLinks(processLists(atLists))

\* the locals of a scanner called with text, at the first test of its loop:
\* lines, result, i in processTables; listLines, listResult, listIdx in
\* processLists; paragraphs, processedParagraphs, paraIdx in processParagraphs
ScanLocals(at, text) ==
    IF at = "processTables"
    THEN [loop |-> "outer", lines |-> Split(text, <<NL>>), result |-> <<>>, i |-> 1]
    ELSE IF at = "processLists"
    THEN [loop |-> "outer", listLines |-> Split(text, <<NL>>), listResult |-> <<>>,
          listIdx |-> 1]
    ELSE [loop |-> "outer", paragraphs |-> Split(text, <<NL, NL>>),
          processedParagraphs |-> <<>>, paraIdx |-> 1]

\* format in the call of one of its line scanners, at the scanner's loop;
\* without katex, processKaTeX has returned its input and no placeholders
StepInit ==
    /\ content \in ScanDocs
    /\ answer = Null
    /\ katex = Absent
    /\ pc \in {"processTables", "processLists", "processParagraphs"}
    /\ \E text \in {FormattedAt(pc, content)} :
           /\ formatted = text
           /\ scan = ScanLocals(pc, text)
    /\ katexPlaceholders = [formatted |-> content, placeholders |-> <<>>]
    /\ events = <<>>
    /\ unsubscribes = {}
    /\ invoked = <<>>
    /\ raised = FALSE

\* a statement of a scanner's loop: the locals change, format's do not
ScanStep(at, loop, locals) ==
    /\ pc = at
    /\ scan # Null
    /\ scan.loop = loop
    /\ scan' = locals
    /\ UNCHANGED <<content, answer, katex, formatted, katexPlaceholders, pc, busVars>>

\* the return of a scanner, and the assignment of format that called it
ScanReturn(at, done, result, next) ==
    /\ pc = at
    /\ scan # Null
    /\ scan.loop = "outer"
    /\ done
    /\ formatted' = result
    /\ pc' = next
    /\ scan' = Null
    /\ UNCHANGED <<content, answer, katex, katexPlaceholders, busVars>>

\* one test of `while (i < lines.length)` that holds, up to the inner loop
TablesOuter ==
    /\ scan # Null /\ pc = "processTables" /\ scan.i <= Len(scan.lines)
    /\ ScanStep("processTables", "outer",
           IF isTableRow(scan.lines[scan.i])
           THEN [loop |-> "inner", lines |-> scan.lines, result |-> scan.result, i |-> scan.i,
                 tableLines |-> <<>>, separatorSeen |-> FALSE]
           ELSE [scan EXCEPT !.result = Append(@, scan.lines[scan.i]), !.i = @ + 1])

\* TablesInner with a separator row noted and not consumed
TablesInner_SeparatorNotConsumed ==
    ScanStep("processTables", "inner",
        IF scan.i <= Len(scan.lines) /\ isTableRow(scan.lines[scan.i])
        THEN IF Includes(Trim(scan.lines[scan.i]), <<"-", "-", "-">>)
             THEN [scan EXCEPT !.separatorSeen = TRUE]
             ELSE [scan EXCEPT !.tableLines = Append(@, Trim(scan.lines[scan.i])), !.i = @ + 1]
        ELSE [loop |-> "outer", lines |-> scan.lines, i |-> scan.i,
              result |-> scan.result \o scan.tableLines])

\* one test of the inner while: an iteration, or the exit and the push of
\* the run to result
TablesInner ==
    ScanStep("processTables", "inner",
        IF scan.i <= Len(scan.lines) /\ isTableRow(scan.lines[scan.i])
        THEN IF Includes(Trim(scan.lines[scan.i]), <<"-", "-", "-">>)
             THEN [scan EXCEPT !.separatorSeen = TRUE, !.i = @ + 1]
             ELSE [scan EXCEPT !.tableLines = Append(@, Trim(scan.lines[scan.i])), !.i = @ + 1]
        ELSE [loop |-> "outer", lines |-> scan.lines, i |-> scan.i,
              result |-> scan.result \o
                  (IF scan.separatorSeen /\ Len(scan.tableLines) > 0
                   THEN <<<<"<", "t", "a", "b", "l", "e", ">">>>>
                        \o [k \in 1..Len(scan.tableLines) |-> TableRowTag(scan.tableLines[k])]
                        \o <<<<"<", "/", "t", "a", "b", "l", "e", ">">>>>
                   ELSE scan.tableLines)])

TablesReturn ==
    /\ scan # Null /\ pc = "processTables"
    /\ ScanReturn("processTables", scan.i > Len(scan.lines),
           Join(scan.result, <<NL>>), "processHeaders")

ListsOuter ==
    /\ scan # Null /\ pc = "processLists" /\ scan.listIdx <= Len(scan.listLines)
    /\ LET line == scan.listLines[scan.listIdx]
       IN  ScanStep("processLists", "outer",
               IF isUlItem(line) \/ isOlItem(line)
               THEN [loop |-> "inner", listLines |-> scan.listLines,
                     listResult |-> scan.listResult, listIdx |-> scan.listIdx,
                     currentListType |-> IF isUlItem(line) THEN <<"u", "l">> ELSE <<"o", "l">>,
                     listItems |-> <<>>]
               ELSE [scan EXCEPT !.listResult = Append(@, line), !.listIdx = @ + 1])

\* listLine.match(/^\d+\./) is null
MarkerIsNull(listLine) ==
    ~(DigitRun(listLine) >= 1 /\ Len(listLine) > DigitRun(listLine)
      /\ listLine[DigitRun(listLine) + 1] = ".")

\* one test of the inner while: an iteration, or the exit (the test fails or
\* the break is taken) and the push of the wrapper; reading [0] of a null
\* match raises
ListsInner ==
    /\ pc = "processLists"
    /\ scan # Null
    /\ scan.loop = "inner"
    /\ LET more == scan.listIdx <= Len(scan.listLines)
           listLine == scan.listLines[scan.listIdx]
           exit == [loop |-> "outer", listLines |-> scan.listLines, listIdx |-> scan.listIdx,
                    listResult |-> Append(scan.listResult,
                        <<"<">> \o scan.currentListType \o <<">">>
                        \o Concat(scan.listItems)
                        \o <<"<", "/">> \o scan.currentListType \o <<">">>)]
       IN  IF more /\ ~isUlItem(listLine) /\ isOlItem(listLine) /\ MarkerIsNull(listLine)
           THEN pc' = "raise" /\ scan' = Null
           ELSE /\ pc' = pc
                /\ scan' =
                     IF ~more THEN exit
                     ELSE IF isUlItem(listLine)
                     THEN [scan EXCEPT !.listItems = Append(@, UlItemTag(listLine)),
                                       !.listIdx = @ + 1]
                     ELSE IF isOlItem(listLine)
                     THEN [scan EXCEPT !.listItems = Append(@, OlItemTag(listLine)),
                                       !.listIdx = @ + 1]
                     ELSE IF Trim(listLine) = <<>>
                     THEN [scan EXCEPT !.listIdx = @ + 1]
                     ELSE exit
    /\ UNCHANGED <<content, answer, katex, formatted, katexPlaceholders, busVars>>

ListsReturn ==
    /\ scan # Null /\ pc = "processLists"
    /\ ScanReturn("processLists", scan.listIdx > Len(scan.listLines),
           Join(scan.listResult, <<NL, NL>>), "processLinks")

ParagraphsOuter ==
    /\ scan # Null /\ pc = "processParagraphs" /\ scan.paraIdx <= Len(scan.paragraphs)
    /\ LET para == scan.paragraphs[scan.paraIdx]
       IN  ScanStep("processParagraphs", "outer",
               IF StartsList(para) /\ ~ClosesList(para)
               THEN [loop |-> "inner", paragraphs |-> scan.paragraphs,
                     processedParagraphs |-> scan.processedParagraphs,
                     paraIdx |-> scan.paraIdx + 1, combined |-> para]
               ELSE IF Trim(para) = <<>>
               THEN [scan EXCEPT !.paraIdx = @ + 1]
               ELSE [scan EXCEPT !.processedParagraphs = Append(@, para), !.paraIdx = @ + 1])

\* one test of the merge-forward while: an iteration, or the exit and the
\* push of combined
ParagraphsInner ==
    ScanStep("processParagraphs", "inner",
        IF scan.paraIdx <= Len(scan.paragraphs) /\ ~ClosesList(scan.combined)
        THEN [scan EXCEPT !.combined = @ \o <<NL, NL>> \o scan.paragraphs[scan.paraIdx],
                          !.paraIdx = @ + 1]
        ELSE [loop |-> "outer", paragraphs |-> scan.paragraphs, paraIdx |-> scan.paraIdx,
              processedParagraphs |-> Append(scan.processedParagraphs, scan.combined)])

\* the map, the filter and the join after the loop
ParagraphsReturn ==
    /\ scan # Null /\ pc = "processParagraphs"
    /\ \E paragraphs \in {[k \in 1..Len(scan.processedParagraphs) |->
                                ParagraphTag(scan.processedParagraphs[k])]} :
           ScanReturn("processParagraphs", scan.paraIdx > Len(scan.paragraphs),
               Join(SelectSeq(paragraphs, LAMBDA p : p # <<>>), <<NL>>),
               "restoreKaTeX")

StepNext ==
    \/ TablesOuter
    \/ TablesInner
    \/ TablesReturn
    \/ ListsOuter
    \/ ListsInner
    \/ ListsReturn
    \/ ParagraphsOuter
    \/ ParagraphsInner
    \/ ParagraphsReturn

\* a scanner that was called runs to its return: no statement of it waits
\* for anything
StepSpec == StepInit /\ [][StepNext]_vars /\ WF_vars(StepNext)

\* the index of the scanner that is in its loop
ScanIndex ==
    IF pc = "processTables" THEN scan.i
    ELSE IF pc = "processLists" THEN scan.listIdx
    ELSE scan.paraIdx

\* the inner loop of the scanner has gone through an iteration, or the
\* statement that entered it advanced the index
InnerRan ==
    IF pc = "processTables" THEN scan.tableLines # <<>> \/ scan.separatorSeen
    ELSE IF pc = "processLists" THEN scan.listItems # <<>>
    ELSE TRUE

\* the array the scanner pushes its output to
ScanResult ==
    IF pc = "processTables" THEN scan.result
    ELSE IF pc = "processLists" THEN scan.listResult
    ELSE scan.processedParagraphs

\* a step inside a scanner's loops advances the index, or enters the inner
\* loop at the line the outer loop is at, or leaves an inner loop that has
\* advanced it; a run leaves the inner loop with all it holds pushed
LoopStepAdvances ==
    (scan # Null /\ scan' # Null) =>
        \/ ScanIndex' > ScanIndex
        \/ /\ scan.loop = "outer" /\ scan'.loop = "inner"
           /\ ScanIndex' = ScanIndex
        \/ /\ scan.loop = "inner" /\ scan'.loop = "outer"
           /\ ScanIndex' = ScanIndex
           /\ InnerRan
           /\ Len(ScanResult') >=
                  Len(ScanResult)
                  + (IF pc = "processTables" THEN Len(scan.tableLines) ELSE 1)

\* C19: format terminates and returns without raising: its statements other
\* than the line scanners are single passes, and in processTables,
\* processLists and processParagraphs (the merge-forward loop too) every step
\* in the loops advances the line or candidate index, a run open at the end
\* of the input is pushed to the result, no statement raises, and the scanner
\* returns to format.
C19_FormatTerminates ==
    /\ [][LoopStepAdvances]_vars
    /\ [](pc # "raise")
    /\ <>(scan = Null /\ pc \in {"processHeaders", "processLinks", "restoreKaTeX"})

\* a list wrapper that is never closed is merged up to the end of the input
\* and returned by processParagraphs
C19_Witness ==
    /\ pc = "restoreKaTeX"
    /\ scan = Null
    /\ content = <<"<", "u", "l", ">", NL, "|", "a", "|">>
    /\ formatted = <<"<", "u", "l", ">", NL, NL, "|", "a", "|">>


--------------------------------------------------------------------------
(* EventBus: the listener lists of this.events under on, emit, off, clear  *)
(* and the unsubscribe functions on() returns.                             *)

MaxListeners == 3

\* event names and handler functions the callers pass to on, emit and off
EventNames == {"chat:send", "chat:clear"}

Callbacks == {"f", "g"}

formatVars == <<content, answer, katex, formatted, katexPlaceholders, pc, scan>>

\* this.events = {}
NoEvents == [event \in {} |-> <<>>]

\* this.events[event], where a missing property reads as undefined
HasListeners(event) == event \in DOMAIN events

\* the callbacks emit(event) calls, in the order of its forEach
Listeners(event) == IF HasListeners(event) THEN events[event] ELSE <<>>

\* the module's singleton, eventBus = new EventBus(), with no format call
\* in progress
BusInit ==
    /\ content = <<>>
    /\ answer = Null
    /\ katex = Absent
    /\ formatted = <<>>
    /\ katexPlaceholders = Null
    /\ pc = "return"
    /\ scan = Null
    /\ events = NoEvents
    /\ unsubscribes = {}
    /\ invoked = <<>>
    /\ raised = FALSE

\* on(event, callback): create the list if missing, push, return the
\* unsubscribe function, which closes over event and callback
on(event, callback) ==
    /\ Len(Listeners(event)) < MaxListeners
    /\ events' = [name \in DOMAIN events \cup {event} |->
                     IF name = event
                     THEN Append(Listeners(event), callback)
                     ELSE events[name]]
    /\ unsubscribes' = unsubscribes \cup {[event |-> event, callback |-> callback]}
    /\ invoked' = <<>>
    /\ raised' = FALSE
    /\ UNCHANGED formatVars

\* emit(event, data): call every listener of the event in list order; an
\* exception of a callback is caught and logged, so the loop goes on
emit(event) ==
    /\ invoked' = Listeners(event)
    /\ raised' = FALSE
    /\ UNCHANGED <<events, unsubscribes>>
    /\ UNCHANGED formatVars

\* off(event): delete this.events[event]
off(event) ==
    /\ events' = [name \in DOMAIN events \ {event} |-> events[name]]
    /\ invoked' = <<>>
    /\ raised' = FALSE
    /\ UNCHANGED unsubscribes
    /\ UNCHANGED formatVars

\* clear(): this.events = {}
clear ==
    /\ events' = NoEvents
    /\ invoked' = <<>>
    /\ raised' = FALSE
    /\ UNCHANGED unsubscribes
    /\ UNCHANGED formatVars

\* the function on() returned:
\* this.events[event] = this.events[event].filter(cb => cb !== callback);
\* reading filter of undefined raises a TypeError before the assignment
unsubscribe(handle) ==
    /\ handle \in unsubscribes
    /\ IF HasListeners(handle.event)
       THEN LET Other(cb) == cb # handle.callback
            IN  /\ events' = [events EXCEPT ![handle.event] = SelectSeq(@, Other)]
                /\ raised' = FALSE
       ELSE /\ raised' = TRUE
            /\ UNCHANGED events
    /\ invoked' = <<>>
    /\ UNCHANGED unsubscribes
    /\ UNCHANGED formatVars

BusNext ==
    \/ \E event \in EventNames, callback \in Callbacks : on(event, callback)
    \/ \E event \in EventNames : emit(event)
    \/ \E event \in EventNames : off(event)
    \/ clear
    \/ \E handle \in unsubscribes : unsubscribe(handle)

BusSpec == BusInit /\ [][BusNext]_vars

\* the listeners of the event without every occurrence of the callback
OthersOf(handle) ==
    LET Other(cb) == cb # handle.callback
    IN  SelectSeq(Listeners(handle.event), Other)

\* C20: the unsubscribe function returned by on(event, callback) can be called
\* in every reachable state, also after off(event) or clear() and a second
\* time: the call never raises, and a following emit of the event invokes the
\* other callbacks of the event in subscription order and not that callback.
C20_UnsubscribeNeverRaises ==
    /\ [][\A handle \in unsubscribes :
              unsubscribe(handle) =>
                  /\ raised' = FALSE
                  /\ Listeners(handle.event)' = OthersOf(handle)]_vars
    /\ [][\A event \in EventNames :
              emit(event) => invoked' = Listeners(event)]_vars

=============================================================================
